---- MODULE Spec2Model ----
(***************************************************************************)
(* Conversation memory and response orchestration of the chatbot backend.  *)
(*                                                                         *)
(* The Node.js event loop runs every handler from its entry (or from the   *)
(* settlement of the promise it awaits) to its next await without          *)
(* interleaving, so each such run is one action.  The external text        *)
(* generator is a black box: each call it receives may be answered, may    *)
(* fail, or may stay unanswered.                                           *)
(***************************************************************************)
EXTENDS Integers, Sequences, FiniteSets, TLC

\* ------------------------------------------------------------------ bounds
MaxRequests == 4        \* validated chat and recommendation requests per behaviour
MaxInFlight == 2        \* requests awaiting the generator at the same time
MaxResets == 1          \* reset requests per behaviour

\* --------------------------------------------------------------- constants
MAX_HISTORY_LENGTH == 5
Now == 20000            \* the instant `new Date()` reads, in minutes since a Sunday 00:00

\* A field a JSON body or an item does not carry is absent from the record.
Has(obj, field) == field \in DOMAIN obj

\* array.slice(-n)
SliceLast(arr, n) ==
  IF Len(arr) <= n THEN arr ELSE SubSeq(arr, Len(arr) - n + 1, Len(arr))

\* array.slice(0, n)
SliceFirst(arr, n) ==
  IF Len(arr) <= n THEN arr ELSE SubSeq(arr, 1, n)

RemoveAt(seq, i) ==
  [j \in 1..(Len(seq) - 1) |-> IF j < i THEN seq[j] ELSE seq[j + 1]]

\* array.filter(test)
Filter(arr, test(_)) ==
  LET idx == {i \in DOMAIN arr : test(arr[i])}
  IN  [k \in 1..Cardinality(idx) |->
         arr[CHOOSE i \in idx : Cardinality({j \in idx : j <= i}) = k]]

\* array.filter(test).length
Count(arr, test(_)) == Cardinality({i \in DOMAIN arr : test(arr[i])})

\* Math.round(100 * a / b) for non-negative a and positive b
RoundPercent(a, b) == (200 * a + b) \div (2 * b)

\* ----------------------------------------------------------------- strings
\* A string typed by a user is the record [chars |-> the sequence of its
\* characters]; the empty string is [chars |-> <<>>].
ToLowerChar(c) ==
  CASE c = "H" -> "h"
    [] c = "A" -> "a"
    [] c = "D" -> "d"
    [] c = "I" -> "i"
    [] OTHER -> c

toLowerCase(str) == [chars |-> [i \in DOMAIN str.chars |-> ToLowerChar(str.chars[i])]]

\* s.includes(sub)
includes(str, sub) ==
  \E i \in 0..(Len(str.chars) - Len(sub)) :
    \A j \in 1..Len(sub) : str.chars[i + j] = sub[j]

\* s.includes(k1) || s.includes(k2) || ...
IncludesAny(str, subs) == \E k \in DOMAIN subs : includes(str, subs[k])

\* ------------------------------------------------------- tasks and context
\* An item is a record carrying the fields the caller supplied; dates are
\* minutes since a Sunday 00:00 local time.
Field(item, f) == IF Has(item, f) THEN item[f] ELSE "undefined"

\* t.type === 'event' ? (t.startTime || t.dueDate || '') : (t.dueDate || '')
HasSortDate(t) ==
  IF Field(t, "type") = "event"
    THEN Has(t, "startTime") \/ Has(t, "dueDate")
    ELSE Has(t, "dueDate")

SortDate(t) ==
  IF Field(t, "type") = "event" /\ Has(t, "startTime") THEN t.startTime ELSE t.dueDate

\* The comparator dateA.getTime() - dateB.getTime() is negative only when both
\* dates are valid and a's is the earlier one (NaN is not negative).
DateBefore(a, b) == HasSortDate(a) /\ HasSortDate(b) /\ SortDate(a) < SortDate(b)

\* array.sort(comparator): stable insertion, an element moves in front of
\* another only when the comparator is negative.
RECURSIVE SortByDate(_)
SortByDate(arr) ==
  IF Len(arr) <= 1 THEN arr
  ELSE LET init == SortByDate(SubSeq(arr, 1, Len(arr) - 1))
           x    == arr[Len(arr)]
           stay == {j \in DOMAIN init : ~DateBefore(x, init[j])}
           k    == IF stay = {} THEN 0 ELSE CHOOSE j \in stay : \A i \in stay : i <= j
       IN  SubSeq(init, 1, k) \o <<x>> \o SubSeq(init, k + 1, Len(init))

UpcomingEntry(t) ==
  [title |-> Field(t, "title"),
   dueDate |-> IF HasSortDate(t) THEN SortDate(t) ELSE -1,    \* -1 stands for ''
   priority |-> IF Has(t, "priority") THEN t.priority ELSE "none",
   category |-> Field(t, "category"),
   type |-> Field(t, "type")]

IsOverdueFromEpoch(t) ==
  /\ Field(t, "type") # "event"
  /\ Field(t, "status") # "completed"
  /\ (IF Has(t, "dueDate") THEN t.dueDate ELSE 0) < Now

IsOverdue(t) ==
  /\ Field(t, "type") # "event"
  /\ Field(t, "status") # "completed"
  /\ Has(t, "dueDate") /\ t.dueDate < Now

SumEstimatedDuration(events) ==
  LET RECURSIVE Sum(_)
      Sum(i) == IF i = 0 THEN 0
                ELSE Sum(i - 1) + (IF Has(events[i], "estimatedDuration")
                                     THEN events[i].estimatedDuration ELSE 0)
  IN  Sum(Len(events))

\* task.category || 'other'
CategoryOf(t) == IF Has(t, "category") THEN t.category ELSE "other"

\* Object.keys(categoryCount): the categories in the order they first occur
RECURSIVE CategoryKeys(_)
CategoryKeys(tasks) ==
  IF Len(tasks) = 0 THEN <<>>
  ELSE LET before == CategoryKeys(SubSeq(tasks, 1, Len(tasks) - 1))
           c == CategoryOf(tasks[Len(tasks)])
       IN  IF \E i \in DOMAIN before : before[i] = c THEN before ELSE Append(before, c)

\* `${category},${categoryCount[category]}`
CategoryToken(tasks, category) ==
  LET InCategory(t) == CategoryOf(t) = category
  IN  <<category, Count(tasks, InCategory)>>

\* task.priority || 'none'
PriorityOf(t) == IF Has(t, "priority") THEN t.priority ELSE "none"

\* Object.keys(priorityCount): the priorities in the order they first occur
RECURSIVE PriorityKeys(_)
PriorityKeys(tasks) ==
  IF Len(tasks) = 0 THEN <<>>
  ELSE LET before == PriorityKeys(SubSeq(tasks, 1, Len(tasks) - 1))
           p == PriorityOf(tasks[Len(tasks)])
       IN  IF \E i \in DOMAIN before : before[i] = p THEN before ELSE Append(before, p)

\* One priorityStats entry, without its deadline list:
\* `${priority},${total},${completed},${completionRate},...`
PriorityRow(tasks, priority) ==
  LET HasPriority(t) == PriorityOf(t) = priority
      IsCompleted(t) == Field(t, "status") = "completed"
      priorityTasks == Filter(tasks, HasPriority)
      total == Len(priorityTasks)
      completed == Count(priorityTasks, IsCompleted)
  IN  [priority |-> priority, total |-> total, completed |-> completed,
       completionRate |-> IF total > 0 THEN RoundPercent(completed, total) ELSE 0]

createTasksContext(tasks) ==
  IF Len(tasks) = 0
    THEN [totalTasks |-> 0, pendingTasks |-> 0, inProgressTasks |-> 0,
          completedTasks |-> 0, overdueTasks |-> 0, urgentTasks |-> 0,
          highPriorityTasks |-> 0, upcomingDeadlines |-> <<>>]
    ELSE
      LET IsEvent(t)     == Field(t, "type") = "event"
          IsPending(t)   == Field(t, "status") = "pending"
          IsProgress(t)  == Field(t, "status") = "in-progress"
          IsCompleted(t) == Field(t, "status") = "completed"
          NotCompleted(t) == ~IsCompleted(t)
          IsUrgent(t)    == Field(t, "priority") = "urgent"
          IsHigh(t)      == Field(t, "priority") = "high"
          events         == Filter(tasks, IsEvent)
          totalTasks     == Len(tasks)
          completedTasks == Count(tasks, IsCompleted)
          sorted         == SliceFirst(SortByDate(Filter(tasks, NotCompleted)), 5)
      IN  [totalTasks |-> totalTasks,
           totalEvents |-> Len(events),
           totalItems |-> totalTasks,
           pendingTasks |-> Count(tasks, IsPending),
           inProgressTasks |-> Count(tasks, IsProgress),
           completedTasks |-> completedTasks,
           overdueTasks |-> Count(tasks, IsOverdue),
           urgentTasks |-> Count(tasks, IsUrgent),
           highPriorityTasks |-> Count(tasks, IsHigh),
           productivityScore |-> RoundPercent(completedTasks, totalTasks),
           completionRate |-> RoundPercent(completedTasks, totalTasks),
           weeklyEventTime |-> SumEstimatedDuration(events),
           categoryStats |-> [i \in DOMAIN CategoryKeys(tasks) |->
                               CategoryToken(tasks, CategoryKeys(tasks)[i])],
           priorityStats |-> [i \in DOMAIN PriorityKeys(tasks) |->
                               PriorityRow(tasks, PriorityKeys(tasks)[i])],
           upcomingDeadlines |-> [i \in DOMAIN sorted |-> UpcomingEntry(sorted[i])]]

\* ------------------------------------------------------ fallback responder
CreateKeywords ==
  << <<"t","ạ","o">>, <<"t","h","ê","m">>, <<"a","d","d">>,
     <<"c","r","e","a","t","e">>, <<"l","ị","c","h">> >>
PriorityKeywords ==
  << <<"ư","u"," ","t","i","ê","n">>, <<"p","r","i","o","r","i","t","y">>,
     <<"q","u","a","n"," ","t","r","ọ","n","g">> >>
ScheduleKeywords ==
  << <<"l","ị","c","h">>, <<"s","c","h","e","d","u","l","e">>,
     <<"d","e","a","d","l","i","n","e">>, <<"h","ạ","n">> >>
ProductivityKeywords ==
  << <<"h","i","ệ","u"," ","s","u","ấ","t">>,
     <<"p","r","o","d","u","c","t","i","v","i","t","y">>,
     <<"t","h","ố","n","g"," ","k","ê">>, <<"p","h","â","n"," ","t","í","c","h">> >>
TimeKeywords ==
  << <<"t","h","ờ","i"," ","g","i","a","n">>, <<"t","i","m","e">>,
     <<"q","u","ả","n"," ","l","ý">> >>
HelpKeywords ==
  << <<"g","i","ú","p">>, <<"h","e","l","p">>,
     <<"h","ư","ớ","n","g"," ","d","ẫ","n">> >>
GreetingKeywords ==
  << <<"x","i","n"," ","c","h","à","o">>, <<"h","e","l","l","o">>,
     <<"h","i">>, <<"c","h","à","o">> >>

\* The response text is the record of the rule that built it and of the
\* values the rule interpolates into its template.
\* context and lowerMessage are values, computed once for the call.
generateFallbackResponseScheduleFirst(userMessage, tasks) ==
  LET Respond(context, lowerMessage) ==
        IF IncludesAny(lowerMessage, ScheduleKeywords) THEN
          [rule |-> "schedule",
           upcomingTasks |-> SliceFirst(context.upcomingDeadlines, 3)]
        ELSE IF IncludesAny(lowerMessage, PriorityKeywords) THEN
          [rule |-> "priority", totalTasks |-> context.totalTasks,
           overdueTasks |-> context.overdueTasks, urgentTasks |-> context.urgentTasks,
           highPriorityTasks |-> context.highPriorityTasks]
        ELSE IF IncludesAny(lowerMessage, CreateKeywords) THEN
          [rule |-> "create"]
        ELSE IF IncludesAny(lowerMessage, ProductivityKeywords) THEN
          [rule |-> "productivity",
           completionRate |-> IF context.totalTasks > 0
                                THEN RoundPercent(context.completedTasks, context.totalTasks)
                                ELSE 0,
           completedTasks |-> context.completedTasks, totalTasks |-> context.totalTasks,
           inProgressTasks |-> context.inProgressTasks, overdueTasks |-> context.overdueTasks]
        ELSE IF IncludesAny(lowerMessage, TimeKeywords) THEN
          [rule |-> "time", totalTasks |-> context.totalTasks,
           overdueTasks |-> context.overdueTasks]
        ELSE IF IncludesAny(lowerMessage, HelpKeywords) THEN
          [rule |-> "help"]
        ELSE IF IncludesAny(lowerMessage, GreetingKeywords) THEN
          [rule |-> "greeting", totalTasks |-> context.totalTasks,
           pendingTasks |-> context.pendingTasks, inProgressTasks |-> context.inProgressTasks,
           completedTasks |-> context.completedTasks, overdueTasks |-> context.overdueTasks]
        ELSE
          [rule |-> "default", userMessage |-> userMessage,
           totalTasks |-> context.totalTasks]
  IN  CHOOSE response \in
        {Respond(context, lowerMessage) :
           context \in {createTasksContext(tasks)},
           lowerMessage \in {toLowerCase(userMessage)}} : TRUE

generateFallbackResponse(userMessage, tasks) ==
  LET Respond(context, lowerMessage) ==
        IF IncludesAny(lowerMessage, CreateKeywords) THEN
          [rule |-> "create"]
        ELSE IF IncludesAny(lowerMessage, PriorityKeywords) THEN
          [rule |-> "priority", totalTasks |-> context.totalTasks,
           overdueTasks |-> context.overdueTasks, urgentTasks |-> context.urgentTasks,
           highPriorityTasks |-> context.highPriorityTasks]
        ELSE IF IncludesAny(lowerMessage, ScheduleKeywords) THEN
          [rule |-> "schedule",
           upcomingTasks |-> SliceFirst(context.upcomingDeadlines, 3)]
        ELSE IF IncludesAny(lowerMessage, ProductivityKeywords) THEN
          [rule |-> "productivity",
           completionRate |-> IF context.totalTasks > 0
                                THEN RoundPercent(context.completedTasks, context.totalTasks)
                                ELSE 0,
           completedTasks |-> context.completedTasks, totalTasks |-> context.totalTasks,
           inProgressTasks |-> context.inProgressTasks, overdueTasks |-> context.overdueTasks]
        ELSE IF IncludesAny(lowerMessage, TimeKeywords) THEN
          [rule |-> "time", totalTasks |-> context.totalTasks,
           overdueTasks |-> context.overdueTasks]
        ELSE IF IncludesAny(lowerMessage, HelpKeywords) THEN
          [rule |-> "help"]
        ELSE IF IncludesAny(lowerMessage, GreetingKeywords) THEN
          [rule |-> "greeting", totalTasks |-> context.totalTasks,
           pendingTasks |-> context.pendingTasks, inProgressTasks |-> context.inProgressTasks,
           completedTasks |-> context.completedTasks, overdueTasks |-> context.overdueTasks]
        ELSE
          [rule |-> "default", userMessage |-> userMessage,
           totalTasks |-> context.totalTasks]
  IN  CHOOSE response \in
        {Respond(context, lowerMessage) :
           context \in {createTasksContext(tasks)},
           lowerMessage \in {toLowerCase(userMessage)}} : TRUE

\* --------------------------------------------------------- recommendations
Categories == <<"academic", "work", "personal", "health", "social">>

MINUTES_PER_WEEK == 10080

\* startOfWeek: the Sunday 00:00 at or before now; endOfWeek: 6 days later, 23:59:59.999
StartOfWeek == Now - (Now % MINUTES_PER_WEEK)
EndOfWeek == StartOfWeek + MINUTES_PER_WEEK - 1

InThisWeek(task) ==
  /\ Has(task, "startTime") /\ Has(task, "endTime")
  /\ task.startTime >= StartOfWeek /\ task.startTime <= EndOfWeek

\* The weekly event time of generateFallbackRecommendations, in minutes.
WeeklyEventMinutes(tasks) ==
  LET IsWeekEvent(t) == Field(t, "type") = "event" /\ InThisWeek(t)
      evs == Filter(tasks, IsWeekEvent)
      RECURSIVE Sum(_)
      Sum(i) == IF i = 0 THEN 0 ELSE Sum(i - 1) + (evs[i].endTime - evs[i].startTime)
  IN  Sum(Len(evs))

CategoryCount(tasks, category) ==
  LET InCategory(t) == Field(t, "category") = category IN Count(tasks, InCategory)

\* categoryStats.reduce(...): the first category holding the largest count
MostActiveCategory(tasks) ==
  LET RECURSIVE Best(_)
      Best(i) == IF i = 0 THEN [total |-> 0, category |-> ""]
                 ELSE LET max == Best(i - 1)
                          n == CategoryCount(tasks, Categories[i])
                      IN  IF n > max.total THEN [total |-> n, category |-> Categories[i]]
                          ELSE max
  IN  Best(Len(Categories))

\* taskStats.overdueTasks || 0
OverdueOf(taskStats) == IF Has(taskStats, "overdueTasks") THEN taskStats.overdueTasks ELSE 0

\* A recommendation is the record of its label, of the template chosen and of
\* the values interpolated.  weeklyHours > 50 is weekly minutes > 3000, and
\* weeklyHours < 20 is weekly minutes < 1200.
generateFallbackRecommendationsPraisingOverdue(tasks, taskStats, language) ==
  LET isVietnamese == language = "vi"
      totalTasks   == Len(tasks)
      overdueTasks == OverdueOf(taskStats)
      minutes      == WeeklyEventMinutes(tasks)
      mostActive   == MostActiveCategory(tasks)
      percentage   == RoundPercent(mostActive.total, totalTasks)
      time ==
        << [label |-> IF isVietnamese THEN "Thời gian" ELSE "Time",
            template |-> IF minutes > 3000 THEN "too much"
                         ELSE IF minutes < 1200 THEN "quite low" ELSE "balanced"] >>
      deadline ==
        IF overdueTasks > 0
          THEN << [label |-> "Deadline", overdueTasks |-> overdueTasks] >>
          ELSE <<>>
      preference ==
        IF mostActive.total > 0 /\ (percentage > 50 \/ percentage < 10)
          THEN << [label |-> IF isVietnamese THEN "Sở thích" ELSE "Preferences",
                   template |-> IF percentage > 50 THEN "focus" ELSE "less attention",
                   category |-> mostActive.category, percentage |-> percentage] >>
          ELSE <<>>
      suggestion ==
        IF minutes >= 1200 /\ minutes <= 3000
          THEN << [label |-> IF isVietnamese THEN "Quản lý thời gian" ELSE "Time Management"] >>
          ELSE << [label |-> IF isVietnamese THEN "Kỹ thuật" ELSE "Technique"] >>
  IN  time \o deadline \o preference \o suggestion

generateFallbackRecommendations(tasks, taskStats, language) ==
  LET isVietnamese == language = "vi"
      totalTasks   == Len(tasks)
      overdueTasks == OverdueOf(taskStats)
      minutes      == WeeklyEventMinutes(tasks)
      mostActive   == MostActiveCategory(tasks)
      percentage   == RoundPercent(mostActive.total, totalTasks)
      time ==
        << [label |-> IF isVietnamese THEN "Thời gian" ELSE "Time",
            template |-> IF minutes > 3000 THEN "too much"
                         ELSE IF minutes < 1200 THEN "quite low" ELSE "balanced"] >>
      deadline ==
        IF overdueTasks > 0
          THEN << [label |-> "Deadline", overdueTasks |-> overdueTasks] >>
          ELSE <<>>
      preference ==
        IF mostActive.total > 0 /\ (percentage > 50 \/ percentage < 10)
          THEN << [label |-> IF isVietnamese THEN "Sở thích" ELSE "Preferences",
                   template |-> IF percentage > 50 THEN "focus" ELSE "less attention",
                   category |-> mostActive.category, percentage |-> percentage] >>
          ELSE <<>>
      suggestion ==
        IF minutes >= 1200 /\ minutes <= 3000 /\ overdueTasks = 0
          THEN << [label |-> IF isVietnamese THEN "Quản lý thời gian" ELSE "Time Management"] >>
          ELSE << [label |-> IF isVietnamese THEN "Kỹ thuật" ELSE "Technique"] >>
  IN  time \o deadline \o preference \o suggestion

\* The labels a line must contain, each with its colon, and the emojis of the
\* old format.
RecommendationLabels ==
  {"Thời gian:", "Deadline:", "Sở thích:", "Gợi ý:", "Quản lý thời gian:",
   "Tối ưu lịch trình:", "Công cụ:", "Kỹ thuật:", "Time:", "Preferences:",
   "Suggestions:", "Time Management:", "Schedule Optimization:", "Tools:", "Technique:"}
\* U+1F3AF, U+26A1, U+1F4A1, U+1F31F
OldFormatEmojis == {"emoji:target", "emoji:bolt", "emoji:bulb", "emoji:star"}

\* A reply of the generator to a recommendations prompt is the sequence of its
\* lines; a line is [text, contains], contains being the set of the labels
\* and emojis above that occur in it, and text = "" for a blank line.
parseRecommendations(aiResponse, language) ==
  LET NotBlank(line) == line.text # ""
      Labelled(line) == line.contains \cap RecommendationLabels # {}
      OldFormat(line) == line.contains \cap OldFormatEmojis # {}
      lines == Filter(aiResponse, NotBlank)
      new == Filter(lines, Labelled)
      old == Filter(lines, OldFormat)
      Texts(ls) == [i \in DOMAIN ls |-> [line |-> ls[i].text]]
  IN  IF Len(new) > 0 THEN Texts(new)
      ELSE IF Len(old) > 0 THEN Texts(old)
      ELSE generateFallbackRecommendations(<<>>, [none |-> 0], language)

Priorities == <<"urgent", "high", "medium", "low">>

\* taskStats.field || 0
StatOf(taskStats, field) == IF Has(taskStats, field) THEN taskStats[field] ELSE 0

\* (a / b) * 100 is not rounded: the number is the fraction num / den.
Percent(a, b) == [num |-> 100 * a, den |-> b]

\* const events / taskItems of createAnalyticsContext, its totals and its
\* rates
createAnalyticsContext(tasks, taskStats) ==
  LET IsEvent(t) == Field(t, "type") = "event"
      IsTask(t)  == Field(t, "type") = "task" \/ ~Has(t, "type")
      events     == Filter(tasks, IsEvent)
      taskItems  == Filter(tasks, IsTask)
      allItems   == events \o taskItems
  IN  [totalEvents |-> Len(events),
       totalTasks |-> Len(taskItems),
       totalItems |-> Len(events) + Len(taskItems),
       completedTasks |-> StatOf(taskStats, "completedTasks"),
       overdueTasks |-> OverdueOf(taskStats),
       productivityScore |-> StatOf(taskStats, "productivityScore"),
       weeklyEventTime |-> StatOf(taskStats, "weeklyEventTime"),
       priorityStats |-> [i \in DOMAIN Priorities |->
                           PriorityRow(taskItems, Priorities[i])],
       completionRate |-> IF Len(taskItems) > 0
                            THEN Percent(StatOf(taskStats, "completedTasks"), Len(taskItems))
                            ELSE Percent(0, 1),
       categoryStats |-> [i \in DOMAIN Categories |->
                            <<Categories[i], CategoryCount(allItems, Categories[i])>>],
       events |-> events,
       tasks |-> taskItems]

\* ------------------------------------------------------------------- state
VARIABLES
  FORCE_FALLBACK,  \* the configuration toggle, fixed when the process starts
  client,          \* the body the chat client of this behaviour sends when it sends a message
  chatHistory,     \* the Map userId -> array of turns (a key is in DOMAIN iff the Map has it)
  summarizations,  \* the summarizeAndResetHistory calls awaiting the summarizer
  chats,           \* the validated chat requests, in order of arrival
  recs,            \* the validated recommendation requests, in order of arrival
  abandoned,       \* number of generation calls still out after their timer won the race
  sent,            \* the last HTTP exchange completed: the request body and its response
  generation,      \* history variable: per identity, the number of resets served for it
  lastAppended     \* history variable: per identity, the last 3 turns pushed, in order

vars == <<FORCE_FALLBACK, client, chatHistory, summarizations, chats, recs, abandoned, sent,
          generation, lastAppended>>

\* ------------------------------------------------------------------ inputs
Task1 == [title |-> "essay", type |-> "task", category |-> "academic",
          priority |-> "urgent", status |-> "pending", dueDate |-> 100]

MsgAdd == [chars |-> <<"a","d","d">>]
MsgHi  == [chars |-> <<"H","i">>]

\* The bodies of the chat requests: one without userId and tasks, one for the
\* identity "" with a task list, one without message.  A behaviour has one
\* chat client, which sends one of the first two, or the third.
ClientBodies ==
  { [message |-> MsgAdd],
    [message |-> MsgHi, userId |-> "", tasks |-> <<Task1>>] }

ChatBodies == ClientBodies \cup { [userId |-> ""] }

ResetBodies == { [userId |-> ""], [unused |-> TRUE] }

Event1 == [title |-> "lecture", type |-> "event", category |-> "academic",
           startTime |-> 20100, endTime |-> 20190]

\* The bodies of the recommendation requests: a complete one, one without
\* taskStats and one without tasks.
RecBodies ==
  { [tasks |-> <<Event1, Task1>>, taskStats |-> [overdueTasks |-> 1], language |-> "en"],
    [tasks |-> <<Event1>>],
    [taskStats |-> [overdueTasks |-> 1]] }

\* What the generator can answer to a recommendations prompt: a reply with a
\* labelled line, and one with no line that parses.
RecTexts ==
  { << [text |-> "Time: fine", contains |-> {"Time:"}], [text |-> "", contains |-> {}] >>,
    << [text |-> "no advice", contains |-> {}] >> }

\* What the generator can answer to a chat prompt, and to a summary prompt.
ModelTexts == { [model |-> "reply"] }
Summaries  == { [model |-> "summary"] }

\* const { userId = 'default' } = req.body
UserIdOf(body) == IF Has(body, "userId") THEN body.userId ELSE "default"

\* req.body.userId || 'default'
UserIdOrDefault(body) ==
  IF Has(body, "userId") /\ body.userId # "" THEN body.userId ELSE "default"

\* tasks || []
TasksOf(body) == IF Has(body, "tasks") THEN body.tasks ELSE <<>>

Identities == {UserIdOf(b) : b \in ChatBodies \cup ResetBodies} \cup {"default"}

\* ----------------------------------------------------- conversation memory
\* The arrays of the Map are shared by reference: a pending summarization
\* holds the array it was started on.  While that array is still the one the
\* Map holds for the identity the summarization is `attached' and reads
\* chatHistory[userId]; when the Map entry is replaced or deleted the array
\* is no longer reachable from the Map, nothing pushes to it any more, and
\* the summarization keeps its final contents in `history'.
Detach(calls, userId, hist) ==
  [i \in DOMAIN calls |->
     IF calls[i].userId = userId /\ calls[i].attached
       THEN [calls[i] EXCEPT !.attached = FALSE, !.history = hist]
       ELSE calls[i]]

\* The turn pushed by addMessageToHistory.  gen stands for the timestamp: it
\* is the reset generation of the identity in which the turn's content was
\* appended.
NewTurn(message, isUser, gen) == [message |-> message, isUser |-> isUser, gen |-> gen]

\* history.length > MAX_HISTORY_LENGTH
ExceedsMax(history) == Len(history) > MAX_HISTORY_LENGTH

addMessageWithDefaultFlag(mem, userId, message, isUser, by) ==
  LET old     == IF userId \in DOMAIN mem.h THEN mem.h[userId] ELSE <<>>
      turn    == NewTurn(message, TRUE, generation[userId])
      history == Append(old, turn)
      call    == [userId |-> userId, snapshot |-> history, attached |-> TRUE,
                  history |-> <<>>, by |-> by]
  IN  [h |-> [k \in DOMAIN mem.h \cup {userId} |-> IF k = userId THEN history ELSE mem.h[k]],
       s |-> IF ExceedsMax(history) THEN Append(mem.s, call) ELSE mem.s,
       a |-> [mem.a EXCEPT ![userId] = SliceLast(Append(@, turn), 3)],
       promise |-> ExceedsMax(history)]

\* The memory is the record [h: the Map, s: the pending summarizations,
\* a: the last turns pushed].  addMessageToHistory pushes the turn and, above
\* MAX_HISTORY_LENGTH, starts summarizeAndResetHistory, which runs up to its
\* await of the summarizer; promise tells whether a promise was returned
\* (rather than null).  by names the request that made the append.
addMessageToHistory(mem, userId, message, isUser, by) ==
  LET old     == IF userId \in DOMAIN mem.h THEN mem.h[userId] ELSE <<>>
      turn    == NewTurn(message, isUser, generation[userId])
      history == Append(old, turn)
      call    == [userId |-> userId, snapshot |-> history, attached |-> TRUE,
                  history |-> <<>>, by |-> by]
  IN  [h |-> [k \in DOMAIN mem.h \cup {userId} |-> IF k = userId THEN history ELSE mem.h[k]],
       s |-> IF ExceedsMax(history) THEN Append(mem.s, call) ELSE mem.s,
       a |-> [mem.a EXCEPT ![userId] = SliceLast(Append(@, turn), 3)],
       promise |-> ExceedsMax(history)]

Memory == [h |-> chatHistory, s |-> summarizations, a |-> lastAppended]

SetMemory(mem) ==
  /\ chatHistory' = mem.h
  /\ summarizations' = mem.s
  /\ lastAppended' = mem.a

\* The array a pending summarization holds.
HistoryOf(call) ==
  IF call.attached THEN chatHistory[call.userId] ELSE call.history

MinGen(history) ==
  CHOOSE g \in {history[i].gen : i \in DOMAIN history} :
    \A i \in DOMAIN history : g <= history[i].gen

\* The single turn that replaces the history when the summarizer answers.
SummaryTurn(call, summary) ==
  [message |-> [summaryOf |-> summary], isUser |-> FALSE, gen |-> MinGen(call.snapshot)]

\* history.slice(-MAX_HISTORY_LENGTH)
RecentHistoryOfMaxLength(history) == SliceLast(history, MAX_HISTORY_LENGTH)

\* history.slice(-3)
RecentHistory(history) == SliceLast(history, 3)

CurrentHistory(userId) ==
  IF userId \in DOMAIN chatHistory THEN chatHistory[userId] ELSE <<>>

\* chatHistory.set(userId, history) at the end of a summarization
SetHistory(i, history) ==
  LET call == summarizations[i]
  IN  /\ chatHistory' = [k \in DOMAIN chatHistory \cup {call.userId} |->
                           IF k = call.userId THEN history ELSE chatHistory[k]]
      /\ summarizations' =
           Detach(RemoveAt(summarizations, i), call.userId, CurrentHistory(call.userId))

\* The summarizer answers: lines 64-73.
SummarizeAnswer(i, summary) ==
  /\ i \in DOMAIN summarizations
  /\ SetHistory(i, <<SummaryTurn(summarizations[i], summary)>>)
  /\ UNCHANGED <<FORCE_FALLBACK, client, chats, recs, abandoned, sent, generation, lastAppended>>

\* The summarizer call fails: lines 74-80.
SummarizeError(i) ==
  /\ i \in DOMAIN summarizations
  /\ SetHistory(i, RecentHistory(HistoryOf(summarizations[i])))
  /\ UNCHANGED <<FORCE_FALLBACK, client, chats, recs, abandoned, sent, generation, lastAppended>>

\* res.json(...) / res.status(...).json(...)
Exchange(endpoint, body, response) ==
  [endpoint |-> endpoint, request |-> body, response |-> response]

RECURSIVE SumOver(_, _)
SumOver(f, S) ==
  IF S = {} THEN 0 ELSE LET x == CHOOSE x \in S : TRUE IN f[x] + SumOver(f, S \ {x})

ResetsServed == SumOver(generation, Identities)

\* POST /api/chat/reset
ResetRequest(body) ==
  LET userId == UserIdOf(body)
  IN  /\ ResetsServed < MaxResets
      /\ chatHistory' = [k \in DOMAIN chatHistory \ {userId} |-> chatHistory[k]]
      /\ summarizations' = Detach(summarizations, userId, CurrentHistory(userId))
      /\ generation' = [generation EXCEPT ![userId] = @ + 1]
      /\ sent' = Exchange("reset", body,
                    [status |-> 200, success |-> TRUE, userId |-> userId])
      /\ UNCHANGED <<FORCE_FALLBACK, client, chats, recs, abandoned, lastAppended>>

\* ------------------------------------------------------------ chat request
\* A chat request is [pc, responses] and, while its handler is suspended,
\* the body the handler holds: pc is "awaiting" while the handler awaits the
\* generator and "done" after it; responses counts the responses sent.
InFlight ==
  Cardinality({r \in DOMAIN chats : chats[r].pc = "awaiting"})
  + Cardinality({k \in DOMAIN recs : recs[k].pc = "awaiting"})

Admit == /\ Len(chats) + Len(recs) < MaxRequests
         /\ InFlight < MaxInFlight

Done == [pc |-> "done", responses |-> 1]

\* generateFallbackResponse(req.body.message, req.body.tasks) is a pure
\* function of the body: its value for every body a client sends.
FallbackResponses ==
  [body \in ClientBodies |-> generateFallbackResponse(body.message, TasksOf(body))]

\* The catch block of the handler: lines 449-464.
CatchBlock(mem, body, r) ==
  LET fallbackResponse == FallbackResponses[body]
  IN  [mem |-> addMessageToHistory(mem, UserIdOrDefault(body), fallbackResponse, FALSE, r),
       response |-> [status |-> 200, success |-> TRUE, response |-> fallbackResponse,
                     note |-> "Using fallback response due to API error"]]

\* if (!message): a missing message and the empty string alike
MessageMissing(body) == ~Has(body, "message") \/ body.message.chars = <<>>

\* The handler from its entry to the await of the generator: lines 335-410.
ChatRequest(body) ==
  LET r == Len(chats) + 1
      userId == UserIdOf(body)
  IN  /\ UNCHANGED <<FORCE_FALLBACK, client, recs, abandoned, generation>>
      /\ IF MessageMissing(body) THEN
           /\ sent' = Exchange("chat", body, [status |-> 400, error |-> "Message is required"])
           /\ UNCHANGED <<chatHistory, summarizations, lastAppended, chats>>
         ELSE
           /\ Admit
           /\ LET m1 == addMessageToHistory(Memory, userId, body.message, TRUE, r)
              IN  IF m1.promise THEN
                    \* summaryResult is a promise: summaryResult.substring is
                    \* not a function, and the TypeError lands in the catch block
                    LET c == CatchBlock(m1, body, r)
                    IN  /\ SetMemory(c.mem)
                        /\ chats' = Append(chats, Done)
                        /\ sent' = Exchange("chat", body, c.response)
                  ELSE IF FORCE_FALLBACK THEN
                    LET fallbackResponse ==
                          generateFallbackResponse(body.message, TasksOf(body))
                        m2 == addMessageToHistory(m1, userId, fallbackResponse, FALSE, r)
                    IN  /\ SetMemory(m2)
                        /\ chats' = Append(chats, Done)
                        /\ sent' = Exchange("chat", body,
                              [status |-> 200, success |-> TRUE, response |-> fallbackResponse,
                               note |-> "Using fallback response due to FORCE_FALLBACK mode",
                               debug |-> [forceFallback |-> FORCE_FALLBACK,
                                          totalTasks |->
                                            createTasksContext(TasksOf(body)).totalTasks]])
                  ELSE
                    /\ SetMemory(m1)
                    /\ chats' = Append(chats, [pc |-> "awaiting", responses |-> 0,
                                               body |-> body])
                    /\ UNCHANGED sent

\* ------------------------------------------------- json blocks of a reply
\* A reply that carries ```json blocks is the sequence of its blocks; a block
\* is the object JSON.parse makes of its text, or a text JSON.parse rejects.
MaxBlocks == 3

DeleteBlock == [parses |-> TRUE, action |-> "delete_task", taskId |-> "t1"]

CreateBlock ==
  [parses |-> TRUE, action |-> "create_task",
   taskData |-> [title |-> "essay", category |-> "work", type |-> "task"]]

CreateNoCategoryBlock ==
  [parses |-> TRUE, action |-> "create_task",
   taskData |-> [title |-> "essay", type |-> "task"]]

UnknownActionBlock == [parses |-> TRUE, action |-> "fly"]

BrokenBlock == [parses |-> FALSE]

JsonBlocks ==
  {DeleteBlock, CreateBlock, CreateNoCategoryBlock, UnknownActionBlock, BrokenBlock}

Replies ==
  {[blocks |-> bs] : bs \in UNION {[1..n -> JsonBlocks] : n \in 0..MaxBlocks}}

BlocksOf(aiResponse) == IF Has(aiResponse, "blocks") THEN aiResponse.blocks ELSE <<>>

\* aiResponse.match(/```json\s*([\s\S]*?)\s*```/): the regular expression has
\* no g flag, so the match is the first block of the reply, or null.
jsonMatch(aiResponse) == SliceFirst(BlocksOf(aiResponse), 1)

JsonExtractionUncaught(aiResponse) ==
  IF jsonMatch(aiResponse) = <<>> THEN
    [examined |-> <<>>, log |-> "No JSON found in response", thrown |-> FALSE]
  ELSE IF ~jsonMatch(aiResponse)[1].parses THEN
    [examined |-> <<1>>, log |-> "Failed to parse JSON", thrown |-> TRUE]
  ELSE
    [examined |-> <<1>>, log |-> "Extracted JSON Data", thrown |-> FALSE]

\* Lines 422-438: the match is parsed and logged inside try/catch; nothing
\* of it is kept.
JsonExtraction(aiResponse) ==
  IF jsonMatch(aiResponse) = <<>> THEN
    [examined |-> <<>>, log |-> "No JSON found in response", thrown |-> FALSE]
  ELSE IF ~jsonMatch(aiResponse)[1].parses THEN
    [examined |-> <<1>>, log |-> "Failed to parse JSON", thrown |-> FALSE]
  ELSE
    [examined |-> <<1>>, log |-> "Extracted JSON Data", thrown |-> FALSE]

\* The generator answers before the deadline: lines 411-447.  An exception
\* thrown there lands in the catch block of line 449.
GenerateAnswer(r, aiResponse) ==
  /\ r \in DOMAIN chats
  /\ chats[r].pc = "awaiting"
  /\ LET body == chats[r].body
         m == addMessageToHistory(Memory, UserIdOf(body), aiResponse, FALSE, r)
         c == CatchBlock(Memory, body, r)
     IN  IF JsonExtraction(aiResponse).thrown THEN
           /\ SetMemory(c.mem)
           /\ chats' = [chats EXCEPT ![r] = Done]
           /\ sent' = Exchange("chat", body, c.response)
         ELSE
           /\ SetMemory(m)
           /\ chats' = [chats EXCEPT ![r] = Done]
           /\ sent' = Exchange("chat", body,
                         [status |-> 200, success |-> TRUE, response |-> aiResponse])
  /\ UNCHANGED <<FORCE_FALLBACK, client, recs, abandoned, generation>>

\* The catch block runs for request r: lines 449-464.
GenerateFails(r) ==
  /\ r \in DOMAIN chats
  /\ chats[r].pc = "awaiting"
  /\ LET c == CatchBlock(Memory, chats[r].body, r)
     IN  /\ SetMemory(c.mem)
         /\ chats' = [chats EXCEPT ![r] = Done]
         /\ sent' = Exchange("chat", chats[r].body, c.response)
  /\ UNCHANGED <<FORCE_FALLBACK, client, recs, generation>>

\* The generation call is rejected.
GenerateError(r) ==
  /\ GenerateFails(r)
  /\ UNCHANGED abandoned

GenerateWithoutTimer(r) ==
  /\ FALSE
  /\ GenerateFails(r)
  /\ abandoned' = abandoned + 1

\* The 30 s timer of Promise.race fires first; the call itself is still out.
GenerateTimeout(r) ==
  /\ GenerateFails(r)
  /\ abandoned' = abandoned + 1

LateAnswerWithContinuation ==
  /\ abandoned > 0
  /\ abandoned' = abandoned - 1
  /\ SetMemory(addMessageToHistory(Memory, "default", [model |-> "reply"], FALSE, 0))
  /\ UNCHANGED <<FORCE_FALLBACK, client, chats, recs, sent, generation>>

\* The generator settles a call whose request has already timed out: the
\* promise that lost the race has no continuation.
LateAnswer ==
  /\ abandoned > 0
  /\ abandoned' = abandoned - 1
  /\ UNCHANGED <<FORCE_FALLBACK, client, chatHistory, summarizations, chats, recs, sent,
                 generation, lastAppended>>

\* -------------------------------------------------- recommendation request
LanguageOf(body) == IF Has(body, "language") THEN body.language ELSE "vi"

\* generateFallbackRecommendations(tasks, taskStats, ..., language) for every
\* body that passes the validation of line 241.
FallbackRecommendationsOf ==
  [body \in {b \in RecBodies : Has(b, "tasks") /\ Has(b, "taskStats")} |->
     generateFallbackRecommendations(body.tasks, body.taskStats, LanguageOf(body))]

FallbackRecommendations(body) == FallbackRecommendationsOf[body]

RecRequestChecksTasksOnly(body) ==
  /\ UNCHANGED <<FORCE_FALLBACK, client, chatHistory, summarizations, chats, abandoned,
                 generation, lastAppended>>
  /\ IF ~Has(body, "tasks") THEN
       /\ sent' = Exchange("recommendations", body,
                     [status |-> 400, error |-> "Tasks and taskStats are required"])
       /\ UNCHANGED recs
     ELSE
       /\ Admit
       /\ recs' = Append(recs, [pc |-> "awaiting", responses |-> 0, body |-> body])
       /\ UNCHANGED sent

\* The handler from its entry to the await of the generator: lines 237-294.
RecRequest(body) ==
  /\ UNCHANGED <<FORCE_FALLBACK, client, chatHistory, summarizations, chats, abandoned,
                 generation, lastAppended>>
  /\ IF ~Has(body, "tasks") \/ ~Has(body, "taskStats") THEN
       /\ sent' = Exchange("recommendations", body,
                     [status |-> 400, error |-> "Tasks and taskStats are required"])
       /\ UNCHANGED recs
     ELSE
       /\ Admit
       /\ IF FORCE_FALLBACK THEN
            /\ recs' = Append(recs, Done)
            /\ sent' = Exchange("recommendations", body,
                 [status |-> 200, success |-> TRUE,
                  recommendations |-> FallbackRecommendations(body),
                  note |-> "Using fallback recommendations due to: FORCE_FALLBACK mode enabled",
                  debug |-> [forceFallback |-> FORCE_FALLBACK,
                             totalTasks |->
                               createAnalyticsContext(body.tasks, body.taskStats).totalTasks]])
          ELSE
            /\ recs' = Append(recs, [pc |-> "awaiting", responses |-> 0, body |-> body])
            /\ UNCHANGED sent

\* The generator answers before the deadline: lines 295-305.
RecAnswer(k, aiResponse) ==
  /\ k \in DOMAIN recs
  /\ recs[k].pc = "awaiting"
  /\ recs' = [recs EXCEPT ![k] = Done]
  /\ sent' = Exchange("recommendations", recs[k].body,
       [status |-> 200, success |-> TRUE,
        recommendations |-> parseRecommendations(aiResponse, LanguageOf(recs[k].body))])
  /\ UNCHANGED <<FORCE_FALLBACK, client, chatHistory, summarizations, chats, abandoned,
                 generation, lastAppended>>

\* The inner catch block runs for request k: lines 306-318.
RecFails(k) ==
  /\ k \in DOMAIN recs
  /\ recs[k].pc = "awaiting"
  /\ recs' = [recs EXCEPT ![k] = Done]
  /\ sent' = Exchange("recommendations", recs[k].body,
       [status |-> 200, success |-> TRUE,
        recommendations |-> FallbackRecommendations(recs[k].body),
        note |-> "Using fallback recommendations due to AI API error"])
  /\ UNCHANGED <<FORCE_FALLBACK, client, chatHistory, summarizations, chats,
                 generation, lastAppended>>

RecError(k) ==
  /\ RecFails(k)
  /\ UNCHANGED abandoned

RecTimeout(k) ==
  /\ RecFails(k)
  /\ abandoned' = abandoned + 1

\* --------------------------------------------------------------- behaviour
NoExchange == [endpoint |-> "none"]

Init ==
  /\ FORCE_FALLBACK \in BOOLEAN
  /\ client \in ClientBodies
  /\ chatHistory = <<>>
  /\ summarizations = <<>>
  /\ chats = <<>>
  /\ recs = <<>>
  /\ abandoned = 0
  /\ sent = NoExchange
  /\ generation = [u \in Identities |-> 0]
  /\ lastAppended = [u \in Identities |-> <<>>]

Next ==
  \/ \E body \in ChatBodies \ (ClientBodies \ {client}) : ChatRequest(body)
  \/ \E r \in 1..MaxRequests, aiResponse \in ModelTexts : GenerateAnswer(r, aiResponse)
  \/ \E r \in 1..MaxRequests : GenerateError(r)
  \/ \E r \in 1..MaxRequests : GenerateTimeout(r)
  \/ LateAnswer
  \/ \E body \in RecBodies : RecRequest(body)
  \/ \E k \in 1..MaxRequests, aiResponse \in RecTexts : RecAnswer(k, aiResponse)
  \/ \E k \in 1..MaxRequests : RecError(k)
  \/ \E k \in 1..MaxRequests : RecTimeout(k)
  \/ \E i \in DOMAIN summarizations, summary \in Summaries : SummarizeAnswer(i, summary)
  \/ \E i \in DOMAIN summarizations : SummarizeError(i)
  \/ \E body \in ResetBodies : ResetRequest(body)

Spec == Init /\ [][Next]_vars

\* The timers of Promise.race fire: a request that is still awaiting the
\* generator 30 s after its call is resumed by the timeout.
LiveSpec ==
  /\ Spec
  /\ \A r \in 1..MaxRequests : WF_vars(GenerateTimeout(r))
  /\ \A k \in 1..MaxRequests : WF_vars(RecTimeout(k))

\* -------------------------------------------------------------- properties
LastTurn(userId) == chatHistory[userId][Len(chatHistory[userId])]

IsSummaryTurn(turn) == ~turn.isUser /\ Has(turn.message, "summaryOf")

PendingFor(userId) ==
  {i \in DOMAIN summarizations : summarizations[i].userId = userId}

\* C1: the stored history of every identity holds at most
\* MAX_HISTORY_LENGTH + 1 = 6 turns in every reachable state.
C1_HistoryAtMostSix ==
  \A u \in DOMAIN chatHistory : Len(chatHistory[u]) <= MAX_HISTORY_LENGTH + 1

\* C2: when a compaction completes, the identity's history is exactly one
\* non-user summary turn if the summarizer answered and exactly 3 turns if it
\* failed; it is never empty and never the history the compaction was
\* started on.
C2_CompactionLeavesOneOrThree ==
  [][\A i \in DOMAIN summarizations :
       LET u == summarizations[i].userId
           before == HistoryOf(summarizations[i])
       IN  /\ (\E summary \in Summaries : SummarizeAnswer(i, summary))
                => /\ Len(chatHistory'[u]) = 1
                   /\ IsSummaryTurn(chatHistory'[u][1])
                   /\ chatHistory'[u] # before
           /\ SummarizeError(i)
                => /\ Len(chatHistory'[u]) = 3
                   /\ chatHistory'[u] # before]_vars

C2_Witness ==
  \E u \in DOMAIN chatHistory :
    /\ Len(chatHistory[u]) = 1
    /\ IsSummaryTurn(chatHistory[u][1])
    /\ Len(lastAppended[u]) = 3

\* C3: a chat request whose user-turn append started a compaction does not
\* send its response while that compaction is pending.
C3_RequestWaitsForCompaction ==
  \A i \in DOMAIN summarizations :
    LET call == summarizations[i]
    IN  call.snapshot[Len(call.snapshot)].isUser => chats[call.by].pc # "done"

\* C4: when the summarizer call fails, the identity's stored history becomes
\* exactly the 3 most recently appended turns of that identity, in order.
C4_FailureKeepsLastThreeAppended ==
  [][\A i \in DOMAIN summarizations :
       SummarizeError(i) =>
         chatHistory'[summarizations[i].userId] = lastAppended[summarizations[i].userId]]_vars

\* C5: a chat request or a reset never changes the history of an identity
\* while another chat request for that identity is in flight or while a
\* compaction for that identity is pending.
C5_MutationSerializedPerIdentity ==
  [][\A u \in Identities :
       LET stored(h) == IF u \in DOMAIN h THEN <<h[u]>> ELSE <<>>
           others == {r \in DOMAIN chats :
                        /\ chats[r].pc = "awaiting" /\ chats'[r].pc = "awaiting"
                        /\ UserIdOf(chats[r].body) = u}
       IN  (/\ stored(chatHistory') # stored(chatHistory)
            /\ Len(summarizations') >= Len(summarizations))
           => (others = {} /\ PendingFor(u) = {})]_vars

\* C6: after a reset of an identity no turn appended before the reset, and no
\* summary of such turns, is part of the identity's stored history.
C6_NoTurnFromBeforeReset ==
  \A u \in DOMAIN chatHistory :
    \A i \in DOMAIN chatHistory[u] : chatHistory[u][i].gen = generation[u]

\* C7: with force-fallback mode enabled no call to the external model is ever
\* out, neither a generation call nor a summarization call.
C7_ForceFallbackCallsNoModel ==
  FORCE_FALLBACK => (summarizations = <<>> /\ InFlight = 0 /\ abandoned = 0)

\* C8: when the generator answers within the deadline, the response text is
\* exactly the model text, without the fallback note, and exactly that text
\* is pushed as a non-user turn onto the history of the request's identity.
C8_ModelTextReturnedAndAppended ==
  [][\A r \in DOMAIN chats : \A aiResponse \in ModelTexts :
       GenerateAnswer(r, aiResponse) =>
         LET u == UserIdOf(chats[r].body)
         IN  /\ sent'.request = chats[r].body
             /\ sent'.response = [status |-> 200, success |-> TRUE, response |-> aiResponse]
             /\ u \in DOMAIN chatHistory'
             /\ chatHistory'[u] =
                  Append(CurrentHistory(u), NewTurn(aiResponse, FALSE, generation[u]))]_vars

C8_Witness ==
  /\ sent.endpoint = "chat"
  /\ sent.response.status = 200
  /\ sent.response.response \in ModelTexts
  /\ UserIdOf(sent.request) \in DOMAIN chatHistory
  /\ LastTurn(UserIdOf(sent.request)).message = sent.response.response

\* C9: when the generation call fails or times out, the request returns
\* success with the Fallback Responder's text for its message and items and
\* with the degraded note, that text is pushed as a non-user turn onto the
\* history of the request's identity, and a model-produced response carries
\* no note.
C9_FailureAnswersWithFallback ==
  [][\A r \in DOMAIN chats :
       /\ GenerateFails(r) =>
            LET body == chats[r].body
                u == UserIdOf(body)
                text == generateFallbackResponse(body.message, TasksOf(body))
            IN  /\ sent'.request = body
                /\ sent'.response.status = 200 /\ sent'.response.success
                /\ sent'.response.response = text
                /\ Has(sent'.response, "note")
                /\ u \in DOMAIN chatHistory'
                /\ chatHistory'[u] = Append(CurrentHistory(u), NewTurn(text, FALSE, generation[u]))
       /\ (\E aiResponse \in ModelTexts : GenerateAnswer(r, aiResponse))
            => ~Has(sent'.response, "note")]_vars

Validated(exchange) ==
  \/ exchange.endpoint = "chat" /\ ~MessageMissing(exchange.request)
  \/ /\ exchange.endpoint = "recommendations"
     /\ Has(exchange.request, "tasks") /\ Has(exchange.request, "taskStats")

SuccessShaped(exchange) ==
  /\ exchange.response.status = 200
  /\ exchange.response.success
  /\ exchange.endpoint = "chat" => Has(exchange.response, "response")
  /\ exchange.endpoint = "recommendations"
       => /\ Has(exchange.response, "recommendations")
          /\ Len(exchange.response.recommendations) > 0

AllAnswered ==
  /\ \A r \in DOMAIN chats : chats[r].pc = "done"
  /\ \A k \in DOMAIN recs : recs[k].pc = "done"

RequestsDone ==
  Cardinality({r \in DOMAIN chats : chats[r].pc = "done"})
    + Cardinality({k \in DOMAIN recs : recs[k].pc = "done"})

\* C11: a generator answer that arrives after the deadline of its request has
\* fired is ignored: the step in which it arrives changes no identity's
\* history, sends no response and touches no request, and the request of
\* every call still out after its deadline is already done.
C11_LateAnswerIgnored ==
  /\ [](abandoned <= RequestsDone)
  /\ [][abandoned' < abandoned =>
          /\ chatHistory' = chatHistory
          /\ summarizations' = summarizations
          /\ sent' = sent
          /\ chats' = chats
          /\ recs' = recs]_vars

\* A chat request has timed out and was answered by the fallback path while
\* its generation call is still out, so that its answer can only arrive late.
C11_Witness ==
  /\ abandoned > 0
  /\ sent.endpoint = "chat"
  /\ Has(sent.response, "note")
  /\ sent.response.note = "Using fallback response due to API error"
  /\ LastTurn(UserIdOrDefault(sent.request)).message = sent.response.response
  /\ InFlight = 0
\* C12: the summarization call is bounded by a deadline: whenever a compaction
\* is pending, eventually no compaction is pending (each one completes, a
\* summarizer that stays silent counting as a failure).
C12_CompactionCompletes ==
  (summarizations # <<>>) ~> (summarizations = <<>>)
\* The stored history of every identity other than userId is the same before
\* and after the step.
OthersUntouched(userId) ==
  \A other \in Identities \ {userId} :
    /\ (other \in DOMAIN chatHistory') = (other \in DOMAIN chatHistory)
    /\ other \in DOMAIN chatHistory => chatHistory'[other] = chatHistory[other]

\* C13: every step of a chat request, of a compaction or of a reset for one
\* identity leaves the stored history of every other identity unchanged.
C13_OtherIdentitiesUntouched ==
  [][/\ \A body \in ChatBodies : ChatRequest(body) => OthersUntouched(UserIdOf(body))
     /\ \A r \in DOMAIN chats :
          /\ (\E aiResponse \in ModelTexts : GenerateAnswer(r, aiResponse))
               => OthersUntouched(UserIdOf(chats[r].body))
          /\ GenerateFails(r) => OthersUntouched(UserIdOf(chats[r].body))
     /\ \A i \in DOMAIN summarizations :
          ((\E summary \in Summaries : SummarizeAnswer(i, summary)) \/ SummarizeError(i))
            => OthersUntouched(summarizations[i].userId)
     /\ \A body \in ResetBodies : ResetRequest(body) => OthersUntouched(UserIdOf(body))]_vars
ModelCallsOut == <<summarizations, InFlight, abandoned>>

\* C14: a chat request without a message is answered with a 4xx status,
\* changes no identity's history and starts no model call; a recommendation
\* request without tasks or without taskStats is answered with a 4xx status
\* and starts no model call.
C14_InvalidRequestRejected ==
  [][/\ \A body \in ChatBodies :
          (ChatRequest(body) /\ ~Has(body, "message"))
            => /\ chatHistory' = chatHistory
               /\ chats' = chats
               /\ ModelCallsOut' = ModelCallsOut
               /\ sent'.request = body
               /\ sent'.response.status \in 400..499
     /\ \A body \in RecBodies :
          (RecRequest(body) /\ (~Has(body, "tasks") \/ ~Has(body, "taskStats")))
            => /\ recs' = recs
               /\ ModelCallsOut' = ModelCallsOut
               /\ sent'.request = body
               /\ sent'.response.status \in 400..499]_vars

\* A chat request without a message has just been rejected while an identity
\* holds turns and a generation call is out.
C14_Witness ==
  /\ sent.endpoint = "chat"
  /\ ~Has(sent.request, "message")
  /\ sent.response.status = 400
  /\ chatHistory # <<>>
  /\ InFlight > 0
\* ------------------------------------------------------- POST /api/tasks/create
\* The taskData objects a caller can send: any subset of the fields, the
\* required ones possibly empty strings.
TaskDataFields == {"title", "category", "type", "priority", "location"}

TaskDataValues(field) ==
  CASE field = "title"    -> {"", "essay"}
    [] field = "category" -> {"", "work"}
    [] field = "type"     -> {"", "task", "event"}
    [] field = "priority" -> {"high"}
    [] field = "location" -> {"room 1"}

TaskDatas ==
  UNION { {td \in [D -> UNION {TaskDataValues(f) : f \in TaskDataFields}] :
             \A f \in D : td[f] \in TaskDataValues(f)} : D \in SUBSET TaskDataFields }

CreateBodies ==
  {[taskData |-> td] : td \in TaskDatas}
    \cup {[taskData |-> td, userId |-> "u1"] : td \in {[title |-> "essay"], [type |-> "event"]}}
    \cup {[userId |-> "u1"], [unused |-> TRUE]}

\* !taskData[field]
Falsy(obj, field) == ~Has(obj, field) \/ obj[field] = ""

\* value || fallback
OrElse(obj, field, fallback) == IF Falsy(obj, field) THEN fallback ELSE obj[field]

\* taskData.field: the field is in the object only when the payload has it
Copied(obj, field, as) == IF Has(obj, field) THEN as :> obj[field] ELSE <<>>

RequiredFields == <<"title", "category", "type">>

MissingFieldsPresentOnly(taskData) ==
  LET Missing(field) == ~Has(taskData, field) IN Filter(RequiredFields, Missing)

\* requiredFields.filter(field => !taskData[field])
MissingFields(taskData) ==
  LET Missing(field) == Falsy(taskData, field) IN Filter(RequiredFields, Missing)

\* The object of lines 186-215; id, createdAt and updatedAt are generated.
NewTask(taskData) ==
  [id |-> "generated", title |-> taskData.title,
   description |-> OrElse(taskData, "description", ""),
   category |-> taskData.category, type |-> taskData.type,
   createdAt |-> "now", updatedAt |-> "now",
   tags |-> OrElse(taskData, "tags", <<>>),
   procrastinationScore |-> OrElse(taskData, "procrastinationScore", 1)]
  @@ (IF taskData.type = "task"
        THEN [priority |-> OrElse(taskData, "priority", "medium"),
              estimatedDuration |-> OrElse(taskData, "estimatedDuration", 60),
              actualDuration |-> OrElse(taskData, "actualDuration", "null"),
              status |-> OrElse(taskData, "status", "pending")]
             @@ Copied(taskData, "dueDate", "dueDate")
        ELSE <<>>)
  @@ (IF taskData.type = "event"
        THEN [location |-> OrElse(taskData, "location", ""),
              isRecurring |-> OrElse(taskData, "isRecurring", FALSE),
              recurrencePattern |-> OrElse(taskData, "recurrencePattern", "null"),
              recurrenceEndDate |-> OrElse(taskData, "recurrenceEndDate", "null")]
             @@ Copied(taskData, "startTime", "startTime")
             @@ Copied(taskData, "endTime", "endTime")
        ELSE <<>>)

\* The response of the handler: lines 160-233.
CreateResponse(body) ==
  IF ~Has(body, "taskData") THEN
    [status |-> 400, success |-> FALSE, error |-> [text |-> "Task data is required"]]
  ELSE IF Len(MissingFields(body.taskData)) > 0 THEN
    [status |-> 400, success |-> FALSE,
     error |-> [missingRequiredFields |-> MissingFields(body.taskData)]]
  ELSE
    [status |-> 200, success |-> TRUE, task |-> NewTask(body.taskData),
     message |-> IF body.taskData.type = "task" THEN "Task created successfully"
                 ELSE "Event created successfully",
     userId |-> UserIdOf(body)]

CreateRequest(body) ==
  /\ sent' = Exchange("create", body, CreateResponse(body))
  /\ UNCHANGED <<FORCE_FALLBACK, client, chatHistory, summarizations, chats, recs,
                 abandoned, generation, lastAppended>>

\* The create endpoint reads and writes none of the server's state: it is
\* checked on its own, from the state of a server that has just started.
CreateInit ==
  /\ FORCE_FALLBACK = FALSE
  /\ client = [message |-> MsgAdd]
  /\ chatHistory = <<>>
  /\ summarizations = <<>>
  /\ chats = <<>>
  /\ recs = <<>>
  /\ abandoned = 0
  /\ sent = NoExchange
  /\ generation = [u \in Identities |-> 0]
  /\ lastAppended = [u \in Identities |-> <<>>]

CreateNext == \E body \in CreateBodies : CreateRequest(body)

CreateSpec == CreateInit /\ [][CreateNext]_vars

\* The payload of a create request carries a non-empty value for the field.
Carries(body, field) ==
  /\ Has(body, "taskData")
  /\ Has(body.taskData, field)
  /\ body.taskData[field] # ""

NotCarried(body) == {field \in {"title", "category", "type"} : ~Carries(body, field)}

\* The fields a rejection names.
NamedFields(response) ==
  IF Has(response, "error") /\ Has(response.error, "missingRequiredFields")
    THEN {response.error.missingRequiredFields[i] :
            i \in 1..Len(response.error.missingRequiredFields)}
    ELSE {}

\* The object is a whole task or a whole event made of the payload.
WholeObject(task, taskData) ==
  /\ task.title = taskData.title /\ task.category = taskData.category
  /\ task.type = taskData.type
  /\ {"id", "description", "createdAt", "updatedAt", "tags", "procrastinationScore"}
       \subseteq DOMAIN task
  /\ task.type = "task" =>
       {"priority", "estimatedDuration", "actualDuration", "status"} \subseteq DOMAIN task
  /\ task.type = "event" =>
       {"location", "isRecurring", "recurrencePattern", "recurrenceEndDate"}
         \subseteq DOMAIN task
  /\ task.type \in {"task", "event"}

ReplyInit ==
  /\ FORCE_FALLBACK = FALSE
  /\ client = [message |-> MsgAdd]
  /\ chatHistory = <<>>
  /\ summarizations = <<>>
  /\ chats = <<>>
  /\ recs = <<>>
  /\ abandoned = 0
  /\ sent = NoExchange
  /\ generation = [u \in Identities |-> 0]
  /\ lastAppended = [u \in Identities |-> <<>>]

ReplyNext ==
  \/ chats = <<>> /\ ChatRequest(client)
  \/ \E aiResponse \in Replies : GenerateAnswer(1, aiResponse)

ReplySpec == ReplyInit /\ [][ReplyNext]_vars

\* The reply a successful chat exchange carried back.
RepliedWith(aiResponse) ==
  /\ sent.endpoint = "chat"
  /\ Has(sent.response, "response")
  /\ sent.response.response = aiResponse

\* A block that parses to an action of the taxonomy with its required fields.
ValidAction(block) ==
  /\ block.parses
  /\ \/ /\ block.action = "create_task"
        /\ Has(block, "taskData")
        /\ {"title", "category", "type"} \subseteq DOMAIN block.taskData
     \/ /\ block.action \in {"update_task", "delete_task"}
        /\ Has(block, "taskId")

ValidActionsOf(aiResponse) == Filter(BlocksOf(aiResponse), ValidAction)

\* C16: a reply with two json blocks, a valid delete_task and then a
\* create_task without category, comes back with exactly one action (the
\* delete) and exactly one discarded entry.
C16_OneActionOneDiscarded ==
  RepliedWith([blocks |-> <<DeleteBlock, CreateNoCategoryBlock>>]) =>
    /\ Has(sent.response, "actions")
    /\ sent.response.actions = <<DeleteBlock>>
    /\ Has(sent.response, "unparsed")
    /\ Len(sent.response.unparsed) = 1

\* C17: for a reply with several json blocks, every block is examined and the
\* actions returned to the caller are the valid blocks in the order of the
\* reply text.
C17_EveryBlockExaminedInOrder ==
  \A aiResponse \in Replies :
    RepliedWith(aiResponse) /\ Len(BlocksOf(aiResponse)) > 1 =>
      /\ JsonExtraction(aiResponse).examined =
           [i \in 1..Len(BlocksOf(aiResponse)) |-> i]
      /\ Has(sent.response, "actions")
      /\ sent.response.actions = ValidActionsOf(aiResponse)

HasFailingBlock(aiResponse) ==
  \E i \in DOMAIN BlocksOf(aiResponse) : ~ValidAction(BlocksOf(aiResponse)[i])

\* C18: when the generator's reply holds a json block that does not parse or
\* is not a valid action, the request still ends on the success path: the
\* response is 200 with exactly the raw reply and no fallback note, and
\* exactly that reply is pushed as a non-user turn onto the identity's history.
C18_FailingBlockKeepsSuccess ==
  [][\A r \in DOMAIN chats : \A aiResponse \in Replies :
       GenerateAnswer(r, aiResponse) /\ HasFailingBlock(aiResponse) =>
         LET u == UserIdOf(chats[r].body)
         IN  /\ sent'.request = chats[r].body
             /\ sent'.response = [status |-> 200, success |-> TRUE, response |-> aiResponse]
             /\ chats'[r] = Done
             /\ u \in DOMAIN chatHistory'
             /\ chatHistory'[u] =
                  Append(CurrentHistory(u), NewTurn(aiResponse, FALSE, generation[u]))]_vars

C18_Witness ==
  /\ RepliedWith([blocks |-> <<BrokenBlock, DeleteBlock>>])
  /\ sent.response.status = 200
  /\ ~Has(sent.response, "note")
  /\ "default" \in DOMAIN chatHistory
  /\ LastTurn("default").message = [blocks |-> <<BrokenBlock, DeleteBlock>>]
  /\ ~LastTurn("default").isUser

\* ------------------------------------------------ createPrompt: time rules
\* Instants are minutes of UTC since midnight of day 0; a date is a day
\* number; a clock time is a minute of the day.
MaxHalfHours == 143

Instants == {30 * k : k \in 0..MaxHalfHours}

\* Asia/Ho_Chi_Minh is UTC+7 all year.
VN_OFFSET_MINUTES == 420

MinutesPerDay == 24 * 60

Clock(hour, minute) == 60 * hour + minute

vnTimeInServerZone(now) == now

\* new Date(now.toLocaleString("en-US", {timeZone: "Asia/Ho_Chi_Minh"})):
\* a date whose local fields are the wall clock of Viet Nam.
vnTimeOf(now) == now + VN_OFFSET_MINUTES

\* getFullYear()-getMonth()-getDate(): the calendar date
DateOf(time) == time \div MinutesPerDay

\* The rules and examples of lines 1293-1311: what the user says (the date
\* anchor and the clock time in Viet Nam) and the UTC stamp to produce.
TimeRules(currentDate, tomorrowDate) ==
  << [line |-> 1294, anchor |-> "any", vn |-> Clock(12, 0), utc |-> Clock(5, 0)],
     [line |-> 1295, anchor |-> "any", vn |-> Clock(7, 0), utc |-> Clock(0, 0)],
     [line |-> 1296, anchor |-> "any", vn |-> Clock(20, 0), utc |-> Clock(13, 0)],
     [line |-> 1298, anchor |-> "today", vn |-> Clock(12, 0),
      utcDate |-> currentDate, utc |-> Clock(5, 0)],
     [line |-> 1299, anchor |-> "tomorrow", vn |-> Clock(12, 0),
      utcDate |-> tomorrowDate, utc |-> Clock(5, 0)],
     [line |-> 1300, anchor |-> "tomorrow", vn |-> Clock(11, 0),
      utcDate |-> tomorrowDate, utc |-> Clock(4, 0)],
     [line |-> 1301, anchor |-> "tomorrow", vn |-> Clock(13, 0),
      utcDate |-> tomorrowDate, utc |-> Clock(6, 0)],
     [line |-> 1302, anchor |-> "tomorrow", vn |-> Clock(11, 0),
      utcDate |-> tomorrowDate, utc |-> Clock(4, 0)],
     [line |-> 1303, anchor |-> "tomorrow", vn |-> Clock(12, 0),
      utcDate |-> tomorrowDate, utc |-> Clock(5, 0)],
     [line |-> 1311, anchor |-> "tomorrow", vn |-> Clock(11, 0),
      utcDate |-> tomorrowDate, utc |-> Clock(4, 0)] >>

\* The time part of the prompt: lines 889-910, 914-919, 1288-1312.
createPromptTimes(now) ==
  LET vnTime == vnTimeOf(now)
      currentDate == DateOf(vnTime)
      tomorrowDate == DateOf(vnTime + MinutesPerDay)
  IN  [currentDate |-> currentDate, tomorrowDate |-> tomorrowDate,
       currentTime |-> vnTime % MinutesPerDay,
       rules |-> TimeRules(currentDate, tomorrowDate)]

CreatePrompt(now) ==
  /\ sent' = Exchange("prompt", [now |-> now], createPromptTimes(now))
  /\ UNCHANGED <<FORCE_FALLBACK, client, chatHistory, summarizations, chats, recs,
                 abandoned, generation, lastAppended>>

PromptNext == \E now \in Instants : CreatePrompt(now)

PromptSpec == ReplyInit /\ [][PromptNext]_vars

\* The calendar date in Viet Nam that a phrase anchored at "today" or
\* "tomorrow" means at the instant now.
LocalDate(now, anchor) ==
  (now + 7 * 60) \div (24 * 60) + (IF anchor = "tomorrow" THEN 1 ELSE 0)

MaxItems == 3

TaskDone == [title |-> "quiz", type |-> "task", category |-> "work",
             priority |-> "urgent", status |-> "completed"]

TaskPlain == [title |-> "note"]

\* An event of a later week, with the duration its caller estimated.
EventLater == [title |-> "exam", type |-> "event", category |-> "work",
               startTime |-> 30000, endTime |-> 30060, estimatedDuration |-> 60]

\* An event with neither startTime nor endTime.
EventBare == [title |-> "call", type |-> "event"]

Items == {Task1, TaskDone, TaskPlain, Event1, EventLater, EventBare}

ItemLists == UNION {[1..n -> Items] : n \in 0..MaxItems}

StatsObjects ==
  {[overdueTasks |-> 1], [completedTasks |-> 1, productivityScore |-> 50],
   [completedTasks |-> 2]}

\* The summaries the handlers make of the caller's items: lines 248, 351 and
\* the fallback recommendations of lines 1422-1544.
SummariesOf(tasks, taskStats) ==
  [analytics |-> createAnalyticsContext(tasks, taskStats),
   tasksContext |-> createTasksContext(tasks),
   recommendations |-> generateFallbackRecommendations(tasks, taskStats, "en"),
   weeklyEventTime |-> WeeklyEventMinutes(tasks),
   categoryStats |-> [i \in DOMAIN Categories |->
                       <<Categories[i], CategoryCount(tasks, Categories[i])>>]]

\* A behaviour makes the summaries of one collection.
Encode(tasks, taskStats) ==
  /\ sent = NoExchange
  /\ sent' = Exchange("summaries", [tasks |-> tasks, taskStats |-> taskStats],
                      SummariesOf(tasks, taskStats))
  /\ UNCHANGED <<FORCE_FALLBACK, client, chatHistory, summarizations, chats, recs,
                 abandoned, generation, lastAppended>>

EncodeNext == \E tasks \in ItemLists, taskStats \in StatsObjects : Encode(tasks, taskStats)

EncodeSpec == ReplyInit /\ [][EncodeNext]_vars

WholePercent(x) == x \in 0..100

\* A fraction that is an integer between 0 and 100.
WholePercentFraction(x) ==
  /\ x.num % x.den = 0
  /\ x.num >= 0 /\ x.num <= 100 * x.den

\* C20: every percentage of every summary (the completion rate of each
\* priority row, the overall completion rate, the productivity score, the
\* share of the most active category) is an integer from 0 to 100, whatever
\* items and taskStats the caller supplies, and is 0 when there is no item.
C20_PercentagesWholeAndBounded ==
  sent.endpoint = "summaries" =>
    LET a == sent.response.analytics
        c == sent.response.tasksContext
        rs == sent.response.recommendations
    IN  /\ \A i \in DOMAIN a.priorityStats :
             /\ WholePercent(a.priorityStats[i].completionRate)
             /\ a.priorityStats[i].total = 0 => a.priorityStats[i].completionRate = 0
        /\ Has(c, "priorityStats") =>
             \A i \in DOMAIN c.priorityStats : WholePercent(c.priorityStats[i].completionRate)
        /\ Has(c, "completionRate") =>
             WholePercent(c.completionRate) /\ WholePercent(c.productivityScore)
        /\ \A i \in DOMAIN rs : Has(rs[i], "percentage") => WholePercent(rs[i].percentage)
        /\ WholePercent(a.productivityScore)
        /\ a.totalTasks = 0 => a.completionRate.num = 0
        /\ WholePercentFraction(a.completionRate)

\* The number of items of type event in a collection.
EventsIn(items) == Cardinality({i \in DOMAIN items : Field(items[i], "type") = "event"})

PartitionedByType(summary, items) ==
  \/ ~Has(summary, "totalEvents")
  \/ /\ summary.totalEvents = EventsIn(items)
     /\ summary.totalTasks = Len(items) - EventsIn(items)
     /\ summary.totalItems = summary.totalEvents + summary.totalTasks

\* C21: in every summary totalEvents is the number of items of type event,
\* totalTasks the number of the other items (an item without type is a task),
\* and totalItems = totalEvents + totalTasks.
C21_PartitionedByType ==
  sent.endpoint = "summaries" =>
    /\ PartitionedByType(sent.response.analytics, sent.request.tasks)
    /\ PartitionedByType(sent.response.tasksContext, sent.request.tasks)

\* The minutes of the events that start in the current week.
RECURSIVE MinutesThisWeek(_)
MinutesThisWeek(items) ==
  IF Len(items) = 0 THEN 0
  ELSE LET e == items[Len(items)]
       IN  MinutesThisWeek(SubSeq(items, 1, Len(items) - 1))
             + (IF /\ Field(e, "type") = "event"
                   /\ Has(e, "startTime") /\ Has(e, "endTime")
                   /\ e.startTime >= Now - (Now % (7 * 24 * 60))
                   /\ e.startTime < Now - (Now % (7 * 24 * 60)) + 7 * 24 * 60
                  THEN e.endTime - e.startTime ELSE 0)

\* C22: the weekly event-minutes of every summary is the sum of
\* endTime - startTime over the events that start in the current week, and
\* the chat context, the recommendation context and the fallback
\* recommendations give that same value for the same items.
C22_WeeklyEventMinutesAgree ==
  sent.endpoint = "summaries" =>
    /\ sent.response.weeklyEventTime = MinutesThisWeek(sent.request.tasks)
    /\ sent.response.analytics.weeklyEventTime = MinutesThisWeek(sent.request.tasks)
    /\ Has(sent.response.tasksContext, "weeklyEventTime") =>
         sent.response.tasksContext.weeklyEventTime = MinutesThisWeek(sent.request.tasks)

\* The five tokens of a collection, in the fixed order.
FiveCategoryTokens(items) ==
  [i \in 1..5 |->
     LET category == <<"academic", "work", "personal", "health", "social">>[i]
     IN  <<category,
           Cardinality({k \in DOMAIN items : Field(items[k], "category") = category})>>]

\* C23: the category counts of every summary are exactly five
\* <<category, count>> tokens in the order academic, work, personal, health,
\* social, whatever the order of the items, each count being the number of
\* items of that category.
C23_FiveCategoryTokensInFixedOrder ==
  sent.endpoint = "summaries" =>
    /\ sent.response.categoryStats = FiveCategoryTokens(sent.request.tasks)
    /\ sent.response.analytics.categoryStats = FiveCategoryTokens(sent.request.tasks)
    /\ Has(sent.response.tasksContext, "categoryStats") =>
         sent.response.tasksContext.categoryStats = FiveCategoryTokens(sent.request.tasks)

\* Every count and rate a summary derives from the items is zero and its
\* deadline lists are empty.
ZeroTasksContext(c) ==
  /\ \A f \in {"totalTasks", "pendingTasks", "inProgressTasks", "completedTasks",
                "overdueTasks", "urgentTasks", "highPriorityTasks"} : c[f] = 0
  /\ c.upcomingDeadlines = <<>>

ZeroAnalytics(a) ==
  /\ a.totalEvents = 0 /\ a.totalTasks = 0 /\ a.totalItems = 0
  /\ a.completionRate.num = 0
  /\ \A i \in DOMAIN a.categoryStats : a.categoryStats[i][2] = 0
  /\ Len(a.priorityStats) = 4
  /\ \A i \in DOMAIN a.priorityStats :
       /\ a.priorityStats[i].total = 0 /\ a.priorityStats[i].completed = 0
       /\ a.priorityStats[i].completionRate = 0
  /\ a.events = <<>> /\ a.tasks = <<>>

\* The items carry none of the optional fields but type.
Sparse(items) == \A i \in DOMAIN items : DOMAIN items[i] \subseteq {"title", "type"}

\* What absent optional fields degrade to: nothing is overdue, pending,
\* completed or urgent, no minute is counted, every deadline is ''.
SparseSummaries(response, items) ==
  LET c == response.tasksContext
      a == response.analytics
  IN  /\ items # <<>> =>
           /\ c.totalTasks = Len(items)
           /\ c.overdueTasks = 0 /\ c.pendingTasks = 0 /\ c.completedTasks = 0
           /\ c.urgentTasks = 0 /\ c.weeklyEventTime = 0 /\ c.completionRate = 0
           /\ Len(c.upcomingDeadlines) = (IF Len(items) < 5 THEN Len(items) ELSE 5)
           /\ \A i \in DOMAIN c.upcomingDeadlines :
                c.upcomingDeadlines[i].dueDate = -1 /\ c.upcomingDeadlines[i].priority = "none"
           /\ c.categoryStats = << <<"other", Len(items)>> >>
      /\ a.totalItems = Len(items)
      /\ \A i \in DOMAIN a.categoryStats : a.categoryStats[i][2] = 0
      /\ \A i \in DOMAIN a.priorityStats : a.priorityStats[i].total = 0
      /\ response.weeklyEventTime = 0

EventLong == [title |-> "camp", type |-> "event", category |-> "social",
              startTime |-> 18000, endTime |-> 19500]

RecItems == {Task1, TaskPlain, Event1, EventLong}
RecItemLists == UNION {[1..n -> RecItems] : n \in 0..MaxItems}
Languages == {"vi", "en"}

\* Replies to a recommendations prompt: those of RecTexts, one whose only
\* line is in the old emoji format, and one of blank lines.
ParsedTexts ==
  RecTexts \cup
  { << [text |-> "", contains |-> {}],
       [text |-> "(bulb) rest more", contains |-> {"emoji:bulb"}] >>,
    << [text |-> "", contains |-> {}] >> }

Recommend(tasks, taskStats, language) ==
  /\ sent = NoExchange
  /\ sent' = Exchange("fallback recommendations",
                [tasks |-> tasks, taskStats |-> taskStats, language |-> language],
                generateFallbackRecommendations(tasks, taskStats, language))
  /\ UNCHANGED <<FORCE_FALLBACK, client, chatHistory, summarizations, chats, recs,
                 abandoned, generation, lastAppended>>

Parse(aiResponse, language) ==
  /\ sent = NoExchange
  /\ sent' = Exchange("parsed recommendations",
                [aiResponse |-> aiResponse, language |-> language],
                parseRecommendations(aiResponse, language))
  /\ UNCHANGED <<FORCE_FALLBACK, client, chatHistory, summarizations, chats, recs,
                 abandoned, generation, lastAppended>>

RecommendNext ==
  \/ \E tasks \in RecItemLists, taskStats \in StatsObjects, language \in Languages :
       Recommend(tasks, taskStats, language)
  \/ \E aiResponse \in ParsedTexts, language \in Languages : Parse(aiResponse, language)

RecommendSpec == ReplyInit /\ [][RecommendNext]_vars

TimeUsageLabels == {"Thời gian", "Time"}
PreferenceLabels == {"Sở thích", "Preferences"}
PraiseLabels == {"Quản lý thời gian", "Time Management"}
TipLabels == {"Kỹ thuật", "Technique"}

\* The list is the fallback list of a collection with the given weekly
\* minutes and overdue count: one time-usage entry, a deadline entry iff
\* something is overdue, at most one preference entry, one suggestion.
FallbackShaped(list, minutes, overdue) ==
  LET n == Len(list)
      d == IF overdue > 0 THEN 1 ELSE 0
  IN  /\ n >= 2
      /\ n \in {2 + d, 3 + d}
      /\ list[1].label \in TimeUsageLabels
      /\ d = 1 => list[2].label = "Deadline" /\ list[2].overdueTasks = overdue
      /\ n = 3 + d => list[2 + d].label \in PreferenceLabels
      /\ list[n].label \in
           (IF minutes >= 20 * 60 /\ minutes <= 50 * 60 /\ overdue = 0
              THEN PraiseLabels ELSE TipLabels)

NoLabelledLine(aiResponse) ==
  \A i \in DOMAIN aiResponse : aiResponse[i].contains \cap RecommendationLabels = {}

NoParsableLine(aiResponse) ==
  \A i \in DOMAIN aiResponse :
    aiResponse[i].text = "" \/ aiResponse[i].contains = {}

FallbackListOrdered ==
  sent.endpoint = "fallback recommendations" =>
    FallbackShaped(sent.response, MinutesThisWeek(sent.request.tasks),
                   IF Has(sent.request.taskStats, "overdueTasks")
                     THEN sent.request.taskStats.overdueTasks ELSE 0)

\* C25 (as stated): the fallback list is never empty and is ordered
\* time-usage, deadline (iff something is overdue), preference (at most
\* one), suggestion (praise iff 20 to 50 weekly hours and nothing overdue,
\* else the technique tip); a reply with no labelled line yields such a list.
C25_FallbackListForUnlabelledReply ==
  /\ FallbackListOrdered
  /\ (sent.endpoint = "parsed recommendations" /\ NoLabelledLine(sent.request.aiResponse))
       => /\ \A i \in DOMAIN sent.response : Has(sent.response[i], "label")
          /\ FallbackShaped(sent.response, 0, 0)

\* C25 (amended): the same, the reply being one with neither a labelled
\* line nor a line in the old emoji format; the lines of the old format are
\* returned as they are.
C25_FallbackListOrdered ==
  /\ FallbackListOrdered
  /\ (sent.endpoint = "parsed recommendations" /\ NoParsableLine(sent.request.aiResponse))
       => /\ \A i \in DOMAIN sent.response : Has(sent.response[i], "label")
          /\ FallbackShaped(sent.response, 0, 0)

C25_Witness ==
  /\ sent.endpoint = "fallback recommendations"
  /\ sent.request.tasks = <<EventLong, Task1>>
  /\ ~Has(sent.request.taskStats, "overdueTasks")
  /\ Len(sent.response) = 2
  /\ sent.response[2].label \in PraiseLabels

\* --------------------------------------------------- the fallback responder
\* Messages of one or two words, the words separated by a space.
Words ==
  { <<"A","D","D">>, <<"p","r","i","o","r","i","t","y">>, <<"l","ị","c","h">>,
    <<"d","e","a","d","l","i","n","e">>, <<"t","h","ố","n","g"," ","k","ê">>,
    <<"t","i","m","e">>, <<"h","e","l","p">>, <<"H","i">>, <<"t","h","i","s">>,
    <<"o","k">> }

Messages ==
  {[chars |-> <<>>]} \cup {[chars |-> w] : w \in Words}
    \cup {[chars |-> v \o <<" ">> \o w] : v \in Words, w \in Words}

RespondTasks == {<<>>, <<Task1>>, <<TaskDone, Task1>>}

FallbackRespond(userMessage, tasks) ==
  /\ sent = NoExchange
  /\ sent' = Exchange("fallback response", [message |-> userMessage, tasks |-> tasks],
                generateFallbackResponse(userMessage, tasks))
  /\ UNCHANGED <<FORCE_FALLBACK, client, chatHistory, summarizations, chats, recs,
                 abandoned, generation, lastAppended>>

RespondNext ==
  \E userMessage \in Messages, tasks \in RespondTasks : FallbackRespond(userMessage, tasks)

RespondSpec == ReplyInit /\ [][RespondNext]_vars

\* The rule table in its order; the default rule has no keyword.
RuleTable ==
  << <<"create", CreateKeywords>>, <<"priority", PriorityKeywords>>,
     <<"schedule", ScheduleKeywords>>, <<"productivity", ProductivityKeywords>>,
     <<"time", TimeKeywords>>, <<"help", HelpKeywords>>, <<"greeting", GreetingKeywords>> >>

Matches(message, i) == IncludesAny(toLowerCase(message), RuleTable[i][2])

FirstMatch(message) ==
  IF \E i \in DOMAIN RuleTable : Matches(message, i)
    THEN RuleTable[CHOOSE i \in DOMAIN RuleTable :
                     /\ Matches(message, i)
                     /\ \A j \in 1..(i - 1) : ~Matches(message, j)][1]
    ELSE "default"

\* C26: the response of the fallback responder is the one of the first rule,
\* in the order create, priority, schedule, productivity, time, help,
\* greeting, whose keywords occur in the lower-cased message, and the
\* default one when none does; it is the response of that one rule, with the
\* values of the items' context.
C26_FirstMatchWins ==
  sent.endpoint = "fallback response" =>
    /\ sent.response.rule = FirstMatch(sent.request.message)
    /\ sent.response.rule \in {"priority", "time", "greeting", "default"} =>
         sent.response.totalTasks = Len(sent.request.tasks)
    /\ sent.response.rule = "default" => sent.response.userMessage = sent.request.message

\* "lịch priority" holds keywords of the create, priority and schedule rules.
C26_Witness ==
  /\ sent.endpoint = "fallback response"
  /\ sent.request.message = [chars |-> <<"l","ị","c","h"," ","p","r","i","o","r","i","t","y">>]
  /\ Matches(sent.request.message, 2) /\ Matches(sent.request.message, 3)
  /\ sent.response.rule = "create"

\* C27: a chat request is answered with the text of the fallback responder
\* only in force-fallback mode or when the request was awaiting the
\* generator and its call failed or timed out; a request whose user turn
\* starts a compaction awaits the generator like any other.
C27_FallbackOnlyOnOwnFailure ==
  [][ /\ Len(chats') = Len(chats) + 1
      /\ chats'[Len(chats')].pc = "done"
      /\ sent'.endpoint = "chat"
      /\ sent'.response.status = 200
      => FORCE_FALLBACK ]_vars

\* C28: absent a reset, when the last pending compaction of an identity
\* completes with a summary, every turn of the history that the summary
\* replaces was part of the transcript the summary was made from: no turn
\* appended while the summarizer call was in flight is discarded.
C28_NoTurnLostToRace ==
  [][\A i \in DOMAIN summarizations : \A summary \in Summaries :
       LET call == summarizations[i]
           u == call.userId
           stored == CurrentHistory(u)
       IN  (/\ SummarizeAnswer(i, summary)
            /\ PendingFor(u) = {i}
            /\ generation[u] = 0)
           => \A k \in DOMAIN stored :
                \/ IsSummaryTurn(stored[k])
                \/ \E j \in DOMAIN call.snapshot : call.snapshot[j] = stored[k]]_vars

\* C29: at most one summarization call is pending per identity in every
\* reachable state.
C29_OneCompactionPerIdentity ==
  \A u \in Identities : Cardinality(PendingFor(u)) <= 1

DoneCount(requests) == Cardinality({r \in DOMAIN requests : requests[r].pc = "done"})

LastAppendedIs(userId, message, isUser) ==
  /\ Len(lastAppended'[userId]) >= 1
  /\ lastAppended'[userId][Len(lastAppended'[userId])].isUser = isUser
  /\ lastAppended'[userId][Len(lastAppended'[userId])].message = message

\* C30: a chat request that passes validation appends to the history of its
\* identity first a user turn holding its message, when it is admitted, and
\* then, when it is answered, a non-user turn holding the response text
\* returned, whichever path answers it.
C30_UserTurnThenResponseTurn ==
  [][/\ (Len(chats') > Len(chats) /\ chats'[Len(chats')].pc = "awaiting")
          => LastAppendedIs(UserIdOf(chats'[Len(chats')].body),
                            chats'[Len(chats')].body.message, TRUE)
     /\ DoneCount(chats') > DoneCount(chats)
          => /\ LastAppendedIs(UserIdOf(sent'.request), sent'.response.response, FALSE)
             /\ Len(chats') > Len(chats)
                  => LET a == lastAppended'[UserIdOf(sent'.request)]
                     IN  /\ Len(a) >= 2
                         /\ a[Len(a) - 1].isUser
                         /\ a[Len(a) - 1].message = sent'.request.message]_vars
====
